---- MODULE Spec2Model ----
(***************************************************************************)
(* A model of teuthology/provision/fog.py: the FOG class, which reimages   *)
(* a bare-metal machine through a FOG server.  One run of FOG.create() is  *)
(* modelled as a process whose position is pc; the FOG server (its host,   *)
(* image, task-type records and its active-task list) and the machine are  *)
(* the environment.                                                        *)
(***************************************************************************)
EXTENDS Integers, Sequences, FiniteSets, TLC

VARIABLES
    pc,             \* position of the run inside create()
    error,          \* the exception that left create(), "" while none has
    fogHosts,       \* FOG server: host records matched by /host/search/<shortname>
    fogImages,      \* FOG server: image records matched by /image/search/<name>
    fogTaskTypes,   \* FOG server: records returned by /tasktype/search/deploy
    tasks,          \* FOG server: the active-task list, in service order
    assigned,       \* FOG server: <<image id, host id>> of the last image edit
    now,            \* the clock, in whole seconds
    host_id,        \* create(): host_id
    image_id,       \* set_image(): image_id
    deploy_id,      \* schedule_deploy_task(): deploy_id
    task_id,        \* create(): task_id
    own_task,       \* history: id of the task the schedule request created
    own_absent,     \* history: a completion poll saw own_task absent
    connected,      \* history: remote.connect() has returned normally
    deploy_counter, \* safe_while(sleep=15, tries=40).counter
    ready_counter,  \* safe_while(sleep=6, tries=20).counter
    calls           \* history: how often each external operation was issued,
                    \* and the seconds slept in each of the two waits

vars == <<pc, error, fogHosts, fogImages, fogTaskTypes, tasks, assigned, now,
          host_id, image_id, deploy_id, task_id, own_task, own_absent,
          connected, deploy_counter, ready_counter, calls>>

----------------------------------------------------------------------------
(* Bounds of the model *)

MaxHosts == 2
MaxImages == 2
MaxOldTasks == 1
Now0 == 10
MaxDestroys == 1

(* Program constants *)

Window == 5
DeploySleep == 15
DeployTries == 40
ReadySleep == 6
ReadyTries == 20

(* Python's None: what schedule_deploy_task returns when its loop ends *)
(* without a return statement.  Record ids are positive.               *)
None == 0

shortname == "host"
OtherHost == "other"

----------------------------------------------------------------------------
(* Exceptions, by the place that raises them *)

HostNotFoundError == "RuntimeError: Host not found!"
AmbiguousHostError == "RuntimeError: More than one host found"
ImageNotFoundError == "RuntimeError: Could not find an image"
RemoteServiceError == "requests.HTTPError"
IndexError == "IndexError"
MaxWhileTries == "MaxWhileTries"
TaskTimedOut == "MaxWhileTries: wait_for_deploy_task"
ReachabilityTimedOut == "MaxWhileTries: _wait_for_ready"
SSHException == "SSHException"

Return(v) == [ok |-> TRUE, val |-> v, err |-> ""]
Raise(e) == [ok |-> FALSE, val |-> None, err |-> e]

----------------------------------------------------------------------------
(* Helpers on sequences *)

NoRepeat(s) == \A i, j \in 1..Len(s) : i # j => s[i] # s[j]

SeqsUpTo(S, n) == UNION {[1..k -> S] : k \in 0..n}

InsertAt(s, i, e) == SubSeq(s, 1, i - 1) \o <<e>> \o SubSeq(s, i, Len(s))

RemoveAt(s, i) == SubSeq(s, 1, i - 1) \o SubSeq(s, i + 1, Len(s))

RECURSIVE SelectSeqBy(_, _)
SelectSeqBy(s, h) ==
    IF s = <<>> THEN <<>>
    ELSE IF Head(s).host = h THEN <<Head(s)>> \o SelectSeqBy(Tail(s), h)
    ELSE SelectSeqBy(Tail(s), h)

----------------------------------------------------------------------------
(* The FOG server's answers (the JSON bodies of section "do_request") *)

HostRecords == [id : 1..MaxHosts, name : {shortname}]
ImageRecords == [id : 1..MaxImages]
TaskTypeLists ==
    { <<>>,
      <<[id |-> 3, name |-> "Deploy"]>>,
      <<[id |-> 2, name |-> "Deploy Debug"], [id |-> 3, name |-> "deploy"]>>,
      <<[id |-> 2, name |-> "Deploy Debug"]>> }
OldTimes == {Now0 - 2 * Window, Now0 - 1, Now0 + Window + 2}
NewTaskId == MaxOldTasks + 1
Delays == {0, Window - 1, Window}

HostSearchBody == [count |-> Len(fogHosts), hosts |-> fogHosts]
ImageSearchBody == [count |-> Len(fogImages), images |-> fogImages]
TaskTypeSearchBody == [tasktypes |-> fogTaskTypes]
ActiveTasksBody == [tasks |-> tasks]

(* str.lower() on the task-type names the server can return *)
Lower(name) ==
    CASE name = "Deploy" -> "deploy"
      [] name = "Deploy Debug" -> "deploy debug"
      [] OTHER -> name

----------------------------------------------------------------------------
(* The methods of FOG, as functions of the responses they receive *)

(* resp.text of a response: empty, or some body *)
Texts == {"", "body"}

(* The log condition with the status test the wrong way round *)
logs_error_inverted(ok, text) == ok /\ text # ""

(* do_request: if not resp.ok and resp.text: log.error(resp.text) *)
logs_error(ok, text) == ~ok /\ text # ""

(* do_request with verify=False: the response whatever its status *)
do_request_unverified(ok, body) == Return(body)

(* do_request with verify=True: raise_for_status() on a response that is *)
(* not ok, the response otherwise.                                       *)
do_request(ok, body) == IF ok THEN Return(body) ELSE Raise(RemoteServiceError)

(* get_host_data without the test for more than one match *)
get_host_data_first(resp) ==
    IF ~resp.ok THEN resp
    ELSE IF resp.val.count = 0 THEN Raise(HostNotFoundError)
    ELSE Return(resp.val.hosts[1])

get_host_data(resp) ==
    IF ~resp.ok THEN resp
    ELSE IF resp.val.count = 0 THEN Raise(HostNotFoundError)
    ELSE IF resp.val.count > 1 THEN Raise(AmbiguousHostError)
    ELSE Return(resp.val.hosts[1])

(* get_image_data returning the last match instead of the first *)
get_image_data_last(resp) ==
    IF ~resp.ok THEN resp
    ELSE IF resp.val.count = 0 THEN Raise(ImageNotFoundError)
    ELSE Return(resp.val.images[resp.val.count])

(* get_image_data without the test for no match *)
get_image_data_unchecked(resp) ==
    IF ~resp.ok THEN resp
    ELSE IF resp.val.count = 0 THEN Return([id |-> None])
    ELSE Return(resp.val.images[1])

get_image_data(resp) ==
    IF ~resp.ok THEN resp
    ELSE IF resp.val.count = 0 THEN Raise(ImageNotFoundError)
    ELSE Return(resp.val.images[1])

(* The task types whose name is 'deploy' as written, without lower() *)
RECURSIVE DeployTaskTypes_exact(_)
DeployTaskTypes_exact(s) ==
    IF s = <<>> THEN <<>>
    ELSE IF Head(s).name = "deploy"
         THEN <<Head(s)>> \o DeployTaskTypes_exact(Tail(s))
         ELSE DeployTaskTypes_exact(Tail(s))

(* tasktypes = [obj for obj in ... if obj['name'].lower() == 'deploy'] *)
(* deploy_id = int(tasktypes[0]['id'])                                 *)
RECURSIVE DeployTaskTypes(_)
DeployTaskTypes(s) ==
    IF s = <<>> THEN <<>>
    ELSE IF Lower(Head(s).name) = "deploy"
         THEN <<Head(s)>> \o DeployTaskTypes(Tail(s))
         ELSE DeployTaskTypes(Tail(s))

find_deploy_id(resp) ==
    IF ~resp.ok THEN resp
    ELSE LET tasktypes == DeployTaskTypes(resp.val.tasktypes)
         IN IF tasktypes = <<>> THEN Raise(IndexError)
            ELSE Return(tasktypes[1].id)

(* get_deploy_tasks without the test of the host name *)
get_deploy_tasks_unfiltered(resp) ==
    IF ~resp.ok THEN resp
    ELSE Return(resp.val.tasks)

get_deploy_tasks(resp) ==
    IF ~resp.ok THEN resp
    ELSE Return(SelectSeqBy(resp.val.tasks, shortname))

(* correlate with the window closed at its end: a task exactly Window *)
(* seconds old is accepted                                            *)
RECURSIVE correlate_closed(_, _)
correlate_closed(host_tasks, utcnow) ==
    IF host_tasks = <<>> THEN None
    ELSE LET task == Head(host_tasks)
             time_delta == utcnow - task.createdTime
         IN IF time_delta <= Window THEN task.id
            ELSE correlate_closed(Tail(host_tasks), utcnow)

(* The loop of schedule_deploy_task over host_tasks; utcnow is the clock *)
(* read inside the loop.  Falling off the loop returns None.             *)
RECURSIVE correlate(_, _)
correlate(host_tasks, utcnow) ==
    IF host_tasks = <<>> THEN None
    ELSE LET task == Head(host_tasks)
             time_delta == utcnow - task.createdTime
         IN IF time_delta < Window THEN task.id
            ELSE correlate(Tail(host_tasks), utcnow)

(* deploy_task_active looking for any task of the host *)
deploy_task_active_any(tid, host_tasks) == host_tasks # <<>>

deploy_task_active(tid, host_tasks) ==
    \E i \in 1..Len(host_tasks) : host_tasks[i].id = tid

(* A poller without a retry budget: it never raises *)
proceed_unbounded(counter, tries) ==
    [counter |-> counter + 1, raise |-> FALSE, slept |-> counter >= 1]

(* safe_while.__call__ (proceed): the first call returns at once, every   *)
(* later call sleeps first, and the call after `tries` calls raises.      *)
proceed(counter, tries) ==
    LET c == counter + 1
    IN [counter |-> c,
        raise |-> c > tries,
        slept |-> c > 1 /\ c <= tries]

(* What remote.connect() can do: return, or raise one of these *)
Swallowed == {"socket.error", "NoValidConnectionsError",
              "AuthenticationException", MaxWhileTries}
ConnectOutcomes == {"ok"} \cup Swallowed \cup {SSHException}

----------------------------------------------------------------------------
(* Initial states: a run about to start against a server in any state *)

Ops == {"host_search", "image_search", "image_edit", "tasktype_search",
        "host_task", "task_active", "power_off", "power_on", "connect",
        "deploy_check", "deploy_sleep", "ready_sleep", "http_error",
        "destroy", "http_error_text", "log_error", "connect_other"}

OldTaskLists ==
    {s \in SeqsUpTo([host : {shortname, OtherHost}, createdTime : OldTimes],
                    MaxOldTasks) : TRUE}

WithIds(s) ==
    [i \in 1..Len(s) |->
        [id |-> i, host |-> s[i].host, createdTime |-> s[i].createdTime]]

HostLists == {s \in SeqsUpTo(HostRecords, MaxHosts) : NoRepeat(s)}
ImageLists == {s \in SeqsUpTo(ImageRecords, MaxImages) : NoRepeat(s)}

(* The records the server holds are inputs of the run.  The lookups read  *)
(* the host, image and task-type records and nothing else; correlation    *)
(* and polling read the active-task list and nothing else.  The two       *)
(* groups are varied one at a time: every lookup answer against a server  *)
(* with no active task, and every active-task list against a server that  *)
(* holds one host, one image and a deploy task type.                      *)
InitLookups ==
    /\ fogHosts \in HostLists
    /\ fogImages \in ImageLists
    /\ fogTaskTypes \in TaskTypeLists
    /\ tasks = <<>>

InitTasks ==
    /\ fogHosts = <<[id |-> 1, name |-> shortname]>>
    /\ fogImages = <<[id |-> 1]>>
    /\ fogTaskTypes = <<[id |-> 3, name |-> "Deploy"]>>
    /\ \E s \in OldTaskLists : tasks = WithIds(s)

Init ==
    /\ pc = "get_host_data"
    /\ error = ""
    /\ (InitLookups \/ InitTasks)
    /\ assigned = <<>>
    /\ now = Now0
    /\ host_id = None
    /\ image_id = None
    /\ deploy_id = None
    /\ task_id = None
    /\ own_task = None
    /\ own_absent = FALSE
    /\ connected = FALSE
    /\ deploy_counter = 0
    /\ ready_counter = 0
    /\ calls = [op \in Ops |-> 0]

Call(op) == [calls EXCEPT ![op] = @ + 1]

(* One request to the server: the operation is counted, and so are a   *)
(* response that is not ok, one that is not ok and has a body, and the *)
(* call of log.error                                                   *)
Request(op, ok, text) ==
    [calls EXCEPT ![op] = @ + 1,
                  !["http_error"] = @ + (IF ok THEN 0 ELSE 1),
                  !["http_error_text"] = @ + (IF ~ok /\ text # "" THEN 1 ELSE 0),
                  !["log_error"] = @ + (IF logs_error(ok, text) THEN 1 ELSE 0)]

Fail(e) == pc' = "failed" /\ error' = e

Goto(l) == pc' = l /\ UNCHANGED error

server == <<fogHosts, fogImages, fogTaskTypes, tasks, assigned, now>>
locals == <<host_id, image_id, deploy_id, task_id>>
history == <<own_task, own_absent, connected>>
counters == <<deploy_counter, ready_counter>>

----------------------------------------------------------------------------
(* create(), one action per external call *)

(* host_data = self.get_host_data(); host_id = int(host_data['id']) *)
HostSearch ==
    /\ pc = "get_host_data"
    /\ \E ok \in BOOLEAN, text \in Texts :
        LET r == get_host_data(do_request(ok, HostSearchBody))
        IN /\ calls' = Request("host_search", ok, text)
           /\ IF r.ok
              THEN host_id' = r.val.id /\ Goto("get_image_data")
              ELSE Fail(r.err) /\ UNCHANGED host_id
    /\ UNCHANGED <<server, image_id, deploy_id, task_id, history, counters>>

(* set_image: image_data = self.get_image_data(); image_id = ... *)
ImageSearch ==
    /\ pc = "get_image_data"
    /\ \E ok \in BOOLEAN, text \in Texts :
        LET r == get_image_data(do_request(ok, ImageSearchBody))
        IN /\ calls' = Request("image_search", ok, text)
           /\ IF r.ok
              THEN image_id' = r.val.id /\ Goto("set_image")
              ELSE Fail(r.err) /\ UNCHANGED image_id
    /\ UNCHANGED <<server, host_id, deploy_id, task_id, history, counters>>

(* set_image: PUT /image/<image_id>/edit with {"hosts": host_id}; the *)
(* server assigns the image when it answers ok                        *)
ImageEdit ==
    /\ pc = "set_image"
    /\ \E ok \in BOOLEAN, text \in Texts :
        LET r == do_request(ok, <<>>)
        IN /\ calls' = Request("image_edit", ok, text)
           /\ assigned' = IF ok THEN <<image_id, host_id>> ELSE assigned
           /\ IF r.ok
              THEN Goto("tasktype_search")
              ELSE Fail(r.err)
    /\ UNCHANGED <<fogHosts, fogImages, fogTaskTypes, tasks, now, locals,
                   history, counters>>

(* schedule_deploy_task: GET /tasktype/search/deploy, tasktypes[0] *)
TaskTypeSearch ==
    /\ pc = "tasktype_search"
    /\ \E ok \in BOOLEAN, text \in Texts :
        LET r == find_deploy_id(do_request(ok, TaskTypeSearchBody))
        IN /\ calls' = Request("tasktype_search", ok, text)
           /\ IF r.ok
              THEN deploy_id' = r.val /\ Goto("schedule")
              ELSE Fail(r.err) /\ UNCHANGED deploy_id
    /\ UNCHANGED <<server, host_id, image_id, task_id, history, counters>>

(* schedule_deploy_task: POST /host/<host_id>/task.  When it answers ok   *)
(* the server has created a task for the host, stamped with the current   *)
(* time, and lists it somewhere among its active tasks; the response      *)
(* carries no id.                                                         *)
ScheduleTask ==
    /\ pc = "schedule"
    /\ \E ok \in BOOLEAN, text \in Texts :
        LET r == do_request(ok, <<>>)
        IN /\ calls' = Request("host_task", ok, text)
           /\ IF ok
              THEN /\ \E i \in 1..(Len(tasks) + 1) :
                        tasks' = InsertAt(tasks, i,
                                    [id |-> NewTaskId, host |-> shortname,
                                     createdTime |-> now])
                   /\ own_task' = NewTaskId
              ELSE UNCHANGED <<tasks, own_task>>
           /\ IF r.ok
              THEN Goto("correlate")
              ELSE Fail(r.err)
    /\ UNCHANGED <<fogHosts, fogImages, fogTaskTypes, assigned, now, locals,
                   own_absent, connected, counters>>

(* schedule_deploy_task: host_tasks = self.get_deploy_tasks() and the loop *)
(* over it.  d is the time that went by since the schedule request.       *)
Correlate ==
    /\ pc = "correlate"
    /\ \E ok \in BOOLEAN, text \in Texts, d \in Delays :
        LET r == get_deploy_tasks(do_request(ok, ActiveTasksBody))
        IN /\ calls' = Request("task_active", ok, text)
           /\ now' = now + d
           /\ IF r.ok
              THEN task_id' = correlate(r.val, now') /\ Goto("power_off")
              ELSE Fail(r.err) /\ UNCHANGED task_id
    /\ UNCHANGED <<fogHosts, fogImages, fogTaskTypes, tasks, assigned,
                   host_id, image_id, deploy_id, history, counters>>

(* self.remote.console.power_off() *)
PowerOff ==
    /\ pc = "power_off"
    /\ Goto("power_on")
    /\ calls' = Call("power_off")
    /\ UNCHANGED <<server, locals, history, counters>>

(* A power-on that waits for a login, as the console's other methods do *)
PowerOn_wait_login ==
    /\ pc = "power_on"
    /\ Goto("wait_for_deploy_task")
    /\ calls' = [calls EXCEPT !["power_on"] = @ + 1, !["connect"] = @ + 1]
    /\ UNCHANGED <<server, locals, history, counters>>

(* self.remote.console.power_on() *)
PowerOn ==
    /\ pc = "power_on"
    /\ Goto("wait_for_deploy_task")
    /\ calls' = Call("power_on")
    /\ UNCHANGED <<server, locals, history, counters>>

(* A wait that correlates again on every listing *)
polled_task_id_recorrelated(host_tasks) == correlate(host_tasks, now)

(* self.deploy_task_active(task_id): the id wait_for_deploy_task was   *)
(* called with, create()'s task_id, whatever the listing holds         *)
polled_task_id(host_tasks) == task_id

(* The handler a caller would need to go on after the wait timed out *)
DeployWaitExhausted_swallowed ==
    Goto("_wait_for_ready") /\ UNCHANGED <<calls, own_absent>>

(* MaxWhileTries raised by proceed() in wait_for_deploy_task: neither it *)
(* nor create() handles it, so _wait_for_ready is not called             *)
DeployWaitExhausted ==
    Fail(TaskTimedOut) /\ UNCHANGED <<calls, own_absent>>

(* wait_for_deploy_task: one turn of `while proceed():` under            *)
(* safe_while(sleep=15, tries=40)                                        *)
WaitForDeployTask ==
    /\ pc = "wait_for_deploy_task"
    /\ LET p == proceed(deploy_counter, DeployTries)
       IN /\ deploy_counter' = p.counter
          /\ IF p.raise
             THEN DeployWaitExhausted
             ELSE \E ok \in BOOLEAN, text \in Texts :
                LET r == get_deploy_tasks(do_request(ok, ActiveTasksBody))
                IN /\ calls' = [calls EXCEPT
                                  !["deploy_sleep"] = @ + (IF p.slept THEN DeploySleep ELSE 0),
                                  !["task_active"] = @ + 1,
                                  !["deploy_check"] = @ + 1,
                                  !["http_error"] = @ + (IF ok THEN 0 ELSE 1),
                                  !["http_error_text"] =
                                      @ + (IF ~ok /\ text # "" THEN 1 ELSE 0),
                                  !["log_error"] =
                                      @ + (IF logs_error(ok, text) THEN 1 ELSE 0)]
                   /\ IF ~r.ok
                      THEN Fail(r.err) /\ UNCHANGED own_absent
                      ELSE /\ own_absent' =
                                (own_absent \/ ~deploy_task_active(own_task, r.val))
                           /\ IF ~deploy_task_active(polled_task_id(r.val), r.val)
                              THEN Goto("_wait_for_ready")
                              ELSE Goto("wait_for_deploy_task")
    /\ UNCHANGED <<server, locals, own_task, connected, ready_counter>>

(* A handler that catches every exception *)
swallowed_all(exc) == TRUE

(* The handler without AuthenticationException *)
swallowed_no_auth(exc) == exc \in Swallowed \ {"AuthenticationException"}

(* except (socket.error, NoValidConnectionsError, AuthenticationException, *)
(*         MaxWhileTries): pass                                            *)
swallowed(exc) == exc \in Swallowed

(* _wait_for_ready: one turn of `while proceed():` under                 *)
(* safe_while(sleep=6, tries=20)                                         *)
WaitForReady ==
    /\ pc = "_wait_for_ready"
    /\ LET p == proceed(ready_counter, ReadyTries)
       IN /\ ready_counter' = p.counter
          /\ IF p.raise
             THEN Fail(ReachabilityTimedOut) /\ UNCHANGED <<calls, connected>>
             ELSE \E out \in ConnectOutcomes :
                /\ calls' = [calls EXCEPT
                               !["ready_sleep"] = @ + (IF p.slept THEN ReadySleep ELSE 0),
                               !["connect"] = @ + 1,
                               !["connect_other"] =
                                   @ + (IF out \in Swallowed \cup {"ok"} THEN 0 ELSE 1)]
                /\ IF out = "ok"
                   THEN connected' = TRUE /\ Goto("done")
                   ELSE /\ UNCHANGED connected
                        /\ IF swallowed(out)
                           THEN Goto("_wait_for_ready")
                           ELSE Fail(out)
    /\ UNCHANGED <<server, locals, own_task, own_absent, deploy_counter>>

(* A teardown that powers the machine off *)
destroy_power_off ==
    /\ calls' = [calls EXCEPT !["destroy"] = @ + 1, !["power_off"] = @ + 1]
    /\ UNCHANGED <<pc, error, server, locals, history, counters>>

(* destroy(): pass *)
destroy ==
    /\ calls' = Call("destroy")
    /\ UNCHANGED <<pc, error, server, locals, history, counters>>

(* The caller runs destroy() on the instance; the instance is used by one *)
(* thread, so not while create() is running                              *)
Destroy ==
    /\ pc \in {"get_host_data", "done", "failed"}
    /\ calls["destroy"] < MaxDestroys
    /\ destroy

----------------------------------------------------------------------------
(* The environment.  The run reads the active-task list from the listing *)
(* that follows the schedule request to the last task-completion check.  *)
(* The list at the schedule request is any list of Init; its changes are *)
(* followed until the run has read it for the last time.                 *)
TasksObserved ==
    pc \in {"correlate", "power_off", "power_on", "wait_for_deploy_task"}

(* An active task completes and leaves the active list.  A completion    *)
(* falls between two checks of the wait: before the first check, after   *)
(* the first, after the sixth, or before the last check the wait allows. *)
DoneMoments == {0, 1, 6, DeployTries - 1}

TaskDone ==
    /\ TasksObserved
    /\ calls["deploy_check"] \in DoneMoments
    /\ \E i \in 1..Len(tasks) : tasks' = RemoveAt(tasks, i)
    /\ UNCHANGED <<pc, error, fogHosts, fogImages, fogTaskTypes, assigned, now,
                   locals, history, counters, calls>>

Next ==
    \/ HostSearch
    \/ ImageSearch
    \/ ImageEdit
    \/ TaskTypeSearch
    \/ ScheduleTask
    \/ Correlate
    \/ PowerOff
    \/ PowerOn
    \/ WaitForDeployTask
    \/ WaitForReady
    \/ Destroy
    \/ TaskDone

Spec == Init /\ [][Next]_vars

(* One step of create(): the thread that runs create() executes its next *)
(* statement                                                             *)
CreateStep ==
    \/ HostSearch
    \/ ImageSearch
    \/ ImageEdit
    \/ TaskTypeSearch
    \/ ScheduleTask
    \/ Correlate
    \/ PowerOff
    \/ PowerOn
    \/ WaitForDeployTask
    \/ WaitForReady

(* Every external call of create() returns, so the thread that runs it   *)
(* goes on to its next statement for as long as there is one.  Nothing   *)
(* is assumed of the server, the machine or the caller of destroy().     *)
FairSpec == Spec /\ WF_vars(CreateStep)

----------------------------------------------------------------------------
(* Vocabulary of the properties *)

AfterCorrelation ==
    pc \in {"power_off", "power_on", "wait_for_deploy_task",
            "_wait_for_ready", "done"}

Abs(x) == IF x < 0 THEN -x ELSE x

(* Task t is listed for the target host and was created less than Window *)
(* seconds before time n (a creation time after n counts as well)        *)
Recent(t, n) == t.host = shortname /\ n - t.createdTime < Window

(* Task t is listed for the target host and its creation time is no more *)
(* than Window seconds away from time n, before or after                 *)
Near(t, n) == t.host = shortname /\ Abs(n - t.createdTime) <= Window

(* As Near, the ends of the window left out *)
StrictlyNear(t, n) == t.host = shortname /\ Abs(n - t.createdTime) < Window

(* The task with id tid is in the list ts, for the target host *)
Listed(tid, ts) ==
    \E i \in 1..Len(ts) : ts[i].id = tid /\ ts[i].host = shortname

CorrelateStep == pc = "correlate" /\ pc' = "power_off"

----------------------------------------------------------------------------
(* C1: when correlation finds no qualifying task, create() stops: no power *)
(* operation, no task-completion poll and no connection attempt follows,   *)
(* and the run is never past task scheduling without a task id.            *)
C1_CorrelationFailureIsFatal ==
    task_id = None =>
        /\ ~AfterCorrelation
        /\ calls["power_off"] = 0
        /\ calls["power_on"] = 0
        /\ calls["deploy_check"] = 0
        /\ calls["connect"] = 0

(* C2: create() ends with exactly one error or with success, and with     *)
(* success only if a task-completion poll saw the task this run scheduled *)
(* absent from the active list and a connection attempt then succeeded.   *)
C2_SuccessIsFull ==
    /\ (pc = "failed") <=> (error # "")
    /\ pc = "done" => (own_absent /\ connected)

(* C3: correlation looks only at tasks listed for the target host,       *)
(* returns a task only if its creation time is within the window around  *)
(* the current time, returns the first such task in list order, and      *)
(* returns None when no task qualifies.                                  *)
C3_FirstTaskInWindow ==
    [][CorrelateStep =>
         /\ task_id' # None =>
              \E i \in 1..Len(tasks) :
                 /\ tasks[i].id = task_id'
                 /\ Near(tasks[i], now')
                 /\ \A j \in 1..(i - 1) : ~StrictlyNear(tasks[j], now')
         /\ task_id' = None =>
              \A i \in 1..Len(tasks) : ~StrictlyNear(tasks[i], now')]_vars

(* What correlation does: it returns the first task, in list order, that  *)
(* is listed for the target host and was created less than Window seconds *)
(* before the current time, creation times in the future included; it     *)
(* returns None when there is no such task.                               *)
FirstRecentTask ==
    [][CorrelateStep =>
         IF \E i \in 1..Len(tasks) : Recent(tasks[i], now')
         THEN \E i \in 1..Len(tasks) :
                /\ Recent(tasks[i], now')
                /\ \A j \in 1..(i - 1) : ~Recent(tasks[j], now')
                /\ task_id' = tasks[i].id
         ELSE task_id' = None]_vars

(* Two tasks qualified and the one returned is the first, not the task *)
(* this run scheduled                                                  *)
FirstOfTwoRecent ==
    /\ pc = "power_off"
    /\ task_id \notin {None, own_task}
    /\ \E i, j \in 1..Len(tasks) :
          /\ i < j
          /\ tasks[i].id = task_id /\ Recent(tasks[i], now)
          /\ tasks[j].id = own_task /\ Recent(tasks[j], now)

----------------------------------------------------------------------------
(* The task-completion wait *)

DeployCheckStep == calls'["deploy_check"] = calls["deploy_check"] + 1

NoHttpErrorStep == calls'["http_error"] = calls["http_error"]

C4_Inv ==
    /\ calls["deploy_check"] <= DeployTries
    /\ calls["deploy_sleep"] =
          (IF calls["deploy_check"] = 0 THEN 0
           ELSE DeploySleep * (calls["deploy_check"] - 1))

C4_Step ==
    /\ (DeployCheckStep /\ NoHttpErrorStep /\ ~Listed(task_id, tasks))
          => pc' = "_wait_for_ready"
    /\ (DeployCheckStep /\ Listed(task_id, tasks))
          => pc' \in {"wait_for_deploy_task", "failed"}
    /\ pc # "wait_for_deploy_task"
          => calls'["deploy_check"] = calls["deploy_check"]
    /\ pc \notin {"wait_for_deploy_task", "correlate"}
          => calls'["task_active"] = calls["task_active"]

(* C4: the task-completion wait checks the active list at most DeployTries *)
(* (40) times, sleeping DeploySleep (15) seconds once between consecutive  *)
(* checks; a check that answers and does not list the correlated task ends *)
(* the wait with success, a check that lists it does not, and once the     *)
(* wait is over the active list is not asked for again.                    *)
C4_DeployWaitStopsWhenAbsent == []C4_Inv /\ [][C4_Step]_vars

(* C4 witness: the correlated task was listed by six checks and not by the *)
(* seventh, and the wait has ended with success                            *)
C4_ExitAtSeventhCheck ==
    /\ pc = "_wait_for_ready"
    /\ task_id # None
    /\ calls["deploy_check"] = 7
    /\ calls["deploy_sleep"] = 6 * DeploySleep

C5_Inv ==
    /\ error = TaskTimedOut =>
          /\ pc = "failed"
          /\ calls["deploy_check"] = DeployTries
          /\ calls["connect"] = 0
          /\ ready_counter = 0
    /\ (pc \in {"_wait_for_ready", "done"} \/ calls["connect"] > 0
            \/ ready_counter > 0) =>
          /\ calls["deploy_check"] \in 1..DeployTries
          /\ deploy_counter = calls["deploy_check"]
          /\ error # TaskTimedOut

C5_Step ==
    (pc = "wait_for_deploy_task" /\ deploy_counter = DeployTries /\ pc' # pc)
        => (pc' = "failed" /\ error' = TaskTimedOut /\ calls' = calls)

(* C5: when all DeployTries (40) checks have listed the correlated task,  *)
(* create() fails with TaskTimedOut and no connection is ever attempted;  *)
(* connection attempts begin only after a check ended the wait with       *)
(* success.                                                               *)
C5_TimeoutIsFatal == []C5_Inv /\ [][C5_Step]_vars

(* C5 witness: the wait has timed out *)
C5_TimedOut == error = TaskTimedOut /\ deploy_counter = DeployTries + 1

----------------------------------------------------------------------------
(* The reachability wait *)

C6_Inv ==
    /\ error \notin Swallowed
    /\ calls["connect"] <= ReadyTries
    /\ error = ReachabilityTimedOut =>
          /\ pc = "failed"
          /\ calls["connect"] = ReadyTries
          /\ ~connected
    /\ connected => pc = "done"
    /\ pc = "done" => connected

C6_Step ==
    /\ (pc = "_wait_for_ready" /\ ready_counter = ReadyTries /\ pc' # pc)
          => (pc' = "failed" /\ error' = ReachabilityTimedOut /\ calls' = calls)
    /\ (pc = "_wait_for_ready" /\ ready_counter < ReadyTries /\ pc' = "failed")
          => error' = SSHException
    /\ connected => calls'["connect"] = calls["connect"]

(* C6: the reachability wait attempts at most ReadyTries (20) connections; *)
(* a socket error, NoValidConnectionsError, AuthenticationException or     *)
(* MaxWhileTries raised by connect() never leaves create(); the wait ends  *)
(* at the first connection that succeeds, and ReachabilityTimedOut is      *)
(* raised only after ReadyTries attempts have failed.                      *)
C6_ReadyWaitSwallowsTransient == []C6_Inv /\ [][C6_Step]_vars

(* C6 witness: twenty failed attempts, then the timeout *)
C6_ReadyTimedOut ==
    /\ error = ReachabilityTimedOut
    /\ calls["connect"] = ReadyTries
    /\ calls["ready_sleep"] = ReadySleep * (ReadyTries - 1)

----------------------------------------------------------------------------
(* Lookups and scheduling *)

OnceOps == {"host_search", "image_search", "image_edit", "tasktype_search",
            "host_task"}

LookupErrors == {HostNotFoundError, AmbiguousHostError, ImageNotFoundError,
                 IndexError}

(* C7: host search, image search, image edit, task-type search and the   *)
(* schedule request are each issued at most once in a run, and a failed  *)
(* one ends the run at once: a response that is not ok, or a lookup that *)
(* raises, leaves the run failed with every later request unissued.      *)
C7_LookupsIssuedOnce ==
    /\ \A op \in OnceOps : calls[op] <= 1
    /\ calls["http_error"] <= 1
    /\ calls["http_error"] = 1 => (pc = "failed" /\ error = RemoteServiceError)
    /\ error # "" => pc = "failed"
    /\ error \in {HostNotFoundError, AmbiguousHostError} =>
          calls["image_search"] = 0
    /\ error = ImageNotFoundError => calls["image_edit"] = 0
    /\ error = IndexError => calls["host_task"] = 0
    /\ error \in LookupErrors =>
          (calls["task_active"] = 0 /\ calls["connect"] = 0)
    /\ calls["image_search"] <= calls["host_search"]
    /\ calls["image_edit"] <= calls["image_search"]
    /\ calls["tasktype_search"] <= calls["image_edit"]
    /\ calls["host_task"] <= calls["tasktype_search"]

(* C7 witness: a run that listed the active tasks and attempted to connect *)
(* more than once each, and issued each of the other requests once         *)
C7_OnlyPollsRepeat ==
    /\ pc = "done"
    /\ calls["task_active"] > 2
    /\ calls["connect"] > 1
    /\ \A op \in OnceOps : calls[op] = 1

Untouched ==
    /\ assigned = <<>>
    /\ calls["image_edit"] = 0
    /\ calls["host_task"] = 0
    /\ own_task = None
    /\ \A i \in 1..Len(tasks) : tasks[i].id # NewTaskId
    /\ calls["power_off"] = 0
    /\ calls["power_on"] = 0

(* C8: a failed host lookup is final and leaves the image unassigned, no  *)
(* task scheduled and the machine not power-cycled, with no image search  *)
(* issued; a failed image lookup is final and leaves no image edit sent,  *)
(* no task scheduled and the machine not power-cycled; a failed image     *)
(* edit is final and leaves no task scheduled and no power cycle.         *)
C8_LookupFailureTouchesNothing ==
    /\ (calls["host_search"] = 1
          /\ (Len(fogHosts) # 1 \/ (pc = "failed" /\ calls["image_search"] = 0)))
       => (pc = "failed" /\ calls["image_search"] = 0 /\ Untouched)
    /\ (calls["image_search"] = 1
          /\ (fogImages = <<>> \/ (pc = "failed" /\ calls["image_edit"] = 0)))
       => (pc = "failed" /\ Untouched)
    /\ (pc = "failed" /\ calls["image_edit"] = 1 /\ calls["tasktype_search"] = 0)
       => /\ calls["host_task"] = 0
          /\ own_task = None
          /\ calls["power_off"] = 0
          /\ calls["power_on"] = 0

(* C8 witness: the image search answered with no image *)
C8_ImageLookupFailed ==
    /\ error = ImageNotFoundError
    /\ calls["host_search"] = 1
    /\ calls["image_search"] = 1

(* C9: after a host search that answered, no match has raised the        *)
(* not-found error, more than one match has raised the ambiguity error,  *)
(* and exactly one match has given that record's id to the run; these    *)
(* two errors are raised in no other case.                               *)
C9_FindHost ==
    calls["host_search"] = 1 =>
        /\ (Len(fogHosts) = 0 /\ calls["http_error"] = 0) =>
              (pc = "failed" /\ error = HostNotFoundError /\ host_id = None)
        /\ (Len(fogHosts) > 1 /\ calls["http_error"] = 0) =>
              (pc = "failed" /\ error = AmbiguousHostError /\ host_id = None)
        /\ (Len(fogHosts) = 1 /\ (calls["http_error"] = 0 \/ calls["image_search"] = 1)) =>
              (host_id = fogHosts[1].id /\ error \notin {HostNotFoundError, AmbiguousHostError})
        /\ error = HostNotFoundError => Len(fogHosts) = 0
        /\ error = AmbiguousHostError => Len(fogHosts) > 1

(* C9 witness: a search with two matches has failed as ambiguous *)
C9_AmbiguousHost ==
    /\ Len(fogHosts) = 2
    /\ error = AmbiguousHostError

(* C10: after an image search that answered, no match has raised the     *)
(* not-found error and one or more matches have given the id of the      *)
(* first listed image to the run, however many matched.                  *)
C10_FindImage ==
    calls["image_search"] = 1 =>
        /\ (Len(fogImages) = 0 /\ calls["http_error"] = 0) =>
              (pc = "failed" /\ error = ImageNotFoundError /\ image_id = None)
        /\ (Len(fogImages) >= 1 /\ (calls["http_error"] = 0 \/ calls["image_edit"] = 1)) =>
              (image_id = fogImages[1].id /\ error # ImageNotFoundError)
        /\ error = ImageNotFoundError => Len(fogImages) = 0

(* C10 witness: two images matched and the run holds the first one's id *)
C10_FirstOfTwoImages ==
    /\ Len(fogImages) = 2
    /\ pc = "set_image"
    /\ image_id = fogImages[1].id

----------------------------------------------------------------------------
(* Task-type lookup *)

(* The name is 'deploy' in some mix of upper and lower case *)
IsDeployName(n) == n \in {"deploy", "Deploy"}

HasDeployType == \E i \in 1..Len(fogTaskTypes) : IsDeployName(fogTaskTypes[i].name)

(* C11: after a task-type search that answered, the run holds the id of   *)
(* the first task type whose name is 'deploy' whatever its case, and only *)
(* then is the schedule request sent; when no task type has that name the *)
(* run has failed at tasktypes[0] (IndexError, the code's                 *)
(* TaskTypeNotFoundError) and the schedule request is never sent.         *)
C11_DeployTaskType ==
    /\ (calls["tasktype_search"] = 1 /\ ~HasDeployType) =>
          /\ pc = "failed"
          /\ error \in {IndexError, RemoteServiceError}
          /\ calls["http_error"] = 0 => error = IndexError
          /\ deploy_id = None
          /\ calls["host_task"] = 0
          /\ own_task = None
    /\ (calls["tasktype_search"] = 1 /\ HasDeployType
            /\ (calls["http_error"] = 0 \/ calls["host_task"] = 1)) =>
          /\ error # IndexError
          /\ \E i \in 1..Len(fogTaskTypes) :
                /\ IsDeployName(fogTaskTypes[i].name)
                /\ \A j \in 1..(i - 1) : ~IsDeployName(fogTaskTypes[j].name)
                /\ deploy_id = fogTaskTypes[i].id
    /\ calls["host_task"] = 1 => (deploy_id # None /\ HasDeployType)
    /\ error = IndexError => ~HasDeployType

(* C11 witness: the search answered with task types none of which is *)
(* named 'deploy', and the run failed before the schedule request    *)
C11_NoDeployType ==
    /\ fogTaskTypes # <<>>
    /\ ~HasDeployType
    /\ error = IndexError
    /\ calls["tasktype_search"] = 1
    /\ calls["host_task"] = 0

----------------------------------------------------------------------------
(* Teardown *)

DestroyStep == calls'["destroy"] # calls["destroy"]

(* C12: destroy() sends no request to the server, triggers no power     *)
(* operation, attempts no connection, changes nothing of the instance,  *)
(* the server or the run, and raises nothing, whenever it is called.    *)
C12_DestroyIsNoOp ==
    [][DestroyStep =>
         /\ UNCHANGED <<pc, error, server, locals, history, counters>>
         /\ calls' = [calls EXCEPT !["destroy"] = @ + 1]]_vars

(* C12 witness: destroy() has run after a create() that succeeded *)
C12_DestroyedAfterCreate ==
    /\ calls["destroy"] = 1
    /\ pc = "done"
    /\ calls["power_off"] = 1
    /\ error = ""

----------------------------------------------------------------------------
(* Logging of failed requests *)

----------------------------------------------------------------------------
(* Order of the events of one run *)

C14_Inv ==
    /\ calls["power_off"] <= 1
    /\ calls["power_on"] <= calls["power_off"]
    /\ calls["power_off"] = 1 =>
          (calls["host_task"] = 1 /\ calls["task_active"] >= 1)
    /\ calls["deploy_check"] >= 1 =>
          (calls["power_off"] = 1 /\ calls["power_on"] = 1)
    /\ calls["connect"] >= 1 =>
          (calls["deploy_check"] >= 1 /\ pc \in {"_wait_for_ready", "done", "failed"})
    /\ pc \in {"power_off", "power_on"} =>
          (calls["deploy_check"] = 0 /\ calls["connect"] = 0)

C14_Step ==
    /\ (calls'["host_task"] # calls["host_task"] /\ pc' # "failed")
          => pc' = "correlate"
    /\ (pc = "correlate" /\ calls' # calls)
          => (calls'["task_active"] = calls["task_active"] + 1
                /\ calls'["power_off"] = calls["power_off"])
    /\ (calls'["power_off"] # calls["power_off"] \/ calls'["power_on"] # calls["power_on"])
          => (calls'["connect"] = calls["connect"]
                /\ calls'["deploy_check"] = calls["deploy_check"])
    /\ calls'["power_off"] # calls["power_off"]
          => (pc = "power_off" /\ calls["power_on"] = 0)
    /\ calls'["power_on"] # calls["power_on"]
          => (pc = "power_on" /\ calls["power_off"] = 1)

(* C14: in one run the schedule request is followed at once by the       *)
(* listing used for correlation; power-off is triggered once, before     *)
(* power-on, both after scheduling and correlation and before the first  *)
(* task-completion check; the power steps attempt no connection, and the *)
(* first connection attempt comes after the task-completion checks.      *)
C14_EventOrder == []C14_Inv /\ [][C14_Step]_vars

(* C14 witness: the machine has been powered off and on, and no check or *)
(* connection attempt has been made yet                                  *)
C14_PowerCycled ==
    /\ pc = "wait_for_deploy_task"
    /\ calls["power_off"] = 1
    /\ calls["power_on"] = 1
    /\ calls["deploy_check"] = 0
    /\ calls["connect"] = 0

----------------------------------------------------------------------------
(* Errors of connect() that are not caught *)

C17_Inv ==
    /\ calls["connect_other"] <= 1
    /\ calls["connect_other"] = 1 =>
          /\ pc = "failed"
          /\ error = SSHException
          /\ ready_counter = calls["connect"]
          /\ calls["ready_sleep"] = ReadySleep * (calls["connect"] - 1)
    /\ error = SSHException => calls["connect_other"] = 1

C17_Step ==
    calls["connect_other"] = 1 =>
        /\ calls'["connect"] = calls["connect"]
        /\ calls'["ready_sleep"] = calls["ready_sleep"]

(* C17: an exception of connect() that is none of socket.error,         *)
(* NoValidConnectionsError, AuthenticationException and MaxWhileTries   *)
(* leaves create() from the attempt that raised it: no connection       *)
(* attempt and no sleep follows it, whatever is left of the ReadyTries  *)
(* (20) attempts.                                                       *)
C17_OtherErrorPropagates == []C17_Inv /\ [][C17_Step]_vars

(* C17 witness: the third attempt raised such an exception and ended the *)
(* run, seventeen attempts being left                                    *)
C17_FailedAtThirdAttempt ==
    /\ error = SSHException
    /\ calls["connect"] = 3
    /\ calls["ready_sleep"] = 2 * ReadySleep

----------------------------------------------------------------------------
(* The task id of the wait *)

C18_Inv ==
    /\ calls["task_active"] - calls["deploy_check"] <= 1
    /\ task_id # None => calls["task_active"] >= 1

C18_Step ==
    /\ task_id' # task_id => (CorrelateStep /\ task_id = None)
    /\ (DeployCheckStep /\ NoHttpErrorStep) =>
          /\ task_id' = task_id
          /\ (pc' = "_wait_for_ready") <=> ~Listed(task_id, tasks)
    /\ calls'["task_active"] # calls["task_active"] =>
          (pc = "correlate" \/ DeployCheckStep)

(* C18: the task id is set once, by the correlation that follows the     *)
(* schedule request, and never changes afterwards; every task-completion *)
(* check tests whether that same id is listed; and one listing at most   *)
(* is used for correlation, every other listing being a task-completion  *)
(* check.                                                                *)
C18_TaskIdFixed == []C18_Inv /\ [][C18_Step]_vars

(* C18 witness: the wait ended after two checks on the task of this     *)
(* run while another recent task of the host, which a new correlation   *)
(* would return, is still listed                                        *)
C18_WaitedOnOwnTask ==
    /\ pc = "_wait_for_ready"
    /\ task_id = own_task
    /\ task_id # None
    /\ calls["deploy_check"] = 2
    /\ \E i \in 1..Len(tasks) : Recent(tasks[i], now)

----------------------------------------------------------------------------
(* Other machines' tasks *)

C16_Inv ==
    task_id # None =>
        \A i \in 1..Len(tasks) : tasks[i].id = task_id => tasks[i].host = shortname

C16_Step ==
    /\ CorrelateStep =>
          \/ task_id' = None
          \/ \E i \in 1..Len(tasks) :
                tasks[i].id = task_id' /\ tasks[i].host = shortname
    /\ (CorrelateStep /\ \A i \in 1..Len(tasks) : tasks[i].host # shortname)
          => task_id' = None
    /\ (DeployCheckStep /\ NoHttpErrorStep
            /\ \A i \in 1..Len(tasks) : tasks[i].host # shortname)
          => pc' = "_wait_for_ready"
    /\ (DeployCheckStep /\ pc' = "wait_for_deploy_task") =>
          \E i \in 1..Len(tasks) :
             tasks[i].id = task_id /\ tasks[i].host = shortname

(* C16: correlation returns only a task listed for the target host, and   *)
(* None when every listed task is of another host; a task-completion     *)
(* check keeps the wait going only when a task of the target host with   *)
(* the correlated id is listed, and ends it when every listed task is of *)
(* another host, however recent those tasks are.                         *)
C16_OtherHostsIgnored == []C16_Inv /\ [][C16_Step]_vars

(* C16 witness: the run correlated to its own task and its wait ended at *)
(* the first check that did not list it, while a task of another host    *)
(* created inside the window is still listed                             *)
C16_OtherTaskStillListed ==
    /\ pc = "_wait_for_ready"
    /\ task_id = own_task
    /\ task_id # None
    /\ calls["deploy_check"] = 1
    /\ \E i \in 1..Len(tasks) :
          tasks[i].host = OtherHost /\ Abs(now - tasks[i].createdTime) < Window

----------------------------------------------------------------------------
(* Termination *)

Terminated == pc \in {"done", "failed"}

C15_Inv ==
    /\ calls["deploy_check"] <= DeployTries
    /\ calls["connect"] <= ReadyTries
    /\ pc = "done" => error = ""
    /\ pc = "failed" => error # ""
    /\ ~Terminated => ENABLED CreateStep

C15_Step ==
    Terminated =>
        /\ pc' = pc
        /\ error' = error
        /\ calls'["deploy_check"] = calls["deploy_check"]
        /\ calls'["connect"] = calls["connect"]

(* C15: when every external call returns, every run of create() reaches   *)
(* its end, with success or with one error that is then never replaced,   *)
(* having made at most DeployTries (40) task-completion checks and at     *)
(* most ReadyTries (20) connection attempts, whatever the server answers, *)
(* whenever tasks complete and whatever connect() does.                   *)
C15_CreateTerminates == <>Terminated /\ []C15_Inv /\ [][C15_Step]_vars

(* C15 witness: the fortieth check ended the task-completion wait, then *)
(* twenty connection attempts failed and the run ended with an error    *)
C15_EndedAfterAllTries ==
    /\ pc = "failed"
    /\ error = ReachabilityTimedOut
    /\ calls["deploy_check"] = DeployTries
    /\ calls["connect"] = ReadyTries

====
